---- MODULE Spec2Model ----
(***************************************************************************)
(* A model of breach-parse-rs (src/src/main.rs): the pattern scan          *)
(* (main -> process_file -> process_memory_mapped_file /                   *)
(* process_large_file_chunked) and the direct-key lookup                   *)
(* (main -> process_email).                                                *)
(*                                                                         *)
(* Bytes are one-character strings.  "nl" is b'\n' and "cr" is b'\r'.      *)
(* A compressed stream is modelled by its framing: a gzip member is the    *)
(* magic byte "G", a stored payload and the trailer "E"; a zstd frame is   *)
(* "Z", a payload and "E".  Decoding strips and validates the framing, so  *)
(* the raw bytes of a compressed file differ from its decoded content.     *)
(*                                                                         *)
(* Byte counts are scaled down: the thresholds of process_file and the     *)
(* chunk size keep their order and the ratio threshold = 2 * chunk size,   *)
(* so that a shard of a few bytes takes each branch of process_file.       *)
(*                                                                         *)
(* The tasks rayon runs in parallel share no state; they are taken one at  *)
(* a time, in any order.  The order of the lines a call returns is not     *)
(* specified by the program, and the properties compare multisets.         *)
(***************************************************************************)
EXTENDS Integers, Sequences, FiniteSets

VARIABLES
    root_is_dir,   \* Path::new(breach_data_location).is_dir()
    config,        \* Config: patterns (keyword, keyword2), email, output_file
    fs,            \* the entries under the corpus root: path -> entry
    pc,            \* position of main / process_email / process_file
    i,             \* process_email: index of the routing loop
    path,          \* process_email: the accumulated path; process_file: the shard
    open_err,      \* process_email: File::open failed
    files,         \* main: the walked files not yet handed to process_file
    strategy,      \* process_file: the I/O strategy chosen for the shard
    pending,       \* process_large_file_chunked: chunk starts not yet processed
    ranges,        \* process_large_file_chunked: the [start, adjusted_end) evaluated
    buffer,        \* the bytes that are split into lines and matched
    lines,         \* the Vec<String> the current call is about to return
    results,       \* main: the collected results
    opened,        \* every path on which File::open succeeded
    stdout,        \* what main printed
    out_file,      \* the output file: NoFile, or the lines written
    exit_status    \* NotExited while running, then the process status

vars == <<root_is_dir, config, fs, pc, i, path, open_err, files, strategy,
          pending, ranges, buffer, lines, results, opened, stdout, out_file,
          exit_status>>

----------------------------------------------------------------------------
(* Bounds of the model *)

MaxShortLen == 3      \* plain shard length, scanned with every pattern set
MaxLongLen == 8       \* plain shard length, scanned with the long pattern sets
MaxPatLen == 2        \* pattern length
MaxPayload == 2       \* payload length of a gzip member / zstd frame
MaxPairLen == 2       \* plain shard length in a two-shard corpus
MaxKeyLen == 3        \* direct-key length in the routing cases
MaxEntries == 2       \* existing entries in the routing cases
MaxPrefixKeyLen == 2  \* direct-key length in the content cases
MaxContent == 3       \* decoded shard length in the content cases

(* Program constants, scaled *)

MmapThreshold == 2    \* 1024 * 1024
LargeThreshold == 6   \* 100 * 1024 * 1024
chunk_size == 3       \* 50 * 1024 * 1024

----------------------------------------------------------------------------
(* Values *)

NL == "nl"
CR == "cr"
NoPath == [dirs |-> <<"-">>, ext |-> "-"]
NoEmail == <<"-">>
NoFile == <<"-">>
NotExited == 0 - 1
Error == [ok |-> FALSE, data |-> <<>>]

Ok(data) == [ok |-> TRUE, data |-> data]

Min(S) == CHOOSE x \in S : \A y \in S : x <= y

SeqsUpTo(S, n) == UNION {[1..k -> S] : k \in 0..n}

Count(s, x) == Cardinality({k \in 1..Len(s) : s[k] = x})

Range(s) == {s[k] : k \in 1..Len(s)}

SameBag(s, t) == \A x \in Range(s) \cup Range(t) : Count(s, x) = Count(t, x)

----------------------------------------------------------------------------
(* The file system *)

RootPath == [dirs |-> <<>>, ext |-> ""]

Exists(p) == p = RootPath \/ p \in DOMAIN fs

Kind(p) == IF p = RootPath THEN "dir" ELSE fs[p].kind

Raw(p) == IF p = RootPath THEN <<>> ELSE fs[p].raw

\* File::open(path).  A directory opens (read-only) and fails on read.
file_open(p) == Exists(p) /\ (p = RootPath \/ fs[p].readable)

\* fs::metadata(path).is_ok(): true of an entry of any kind
metadata_is_ok(p) == Exists(p)

file_size(p) == Len(Raw(p))

----------------------------------------------------------------------------
(* Decoders.  Each returns Ok(decoded bytes) or Error. *)

FirstIndex(s, b) == Min({k \in 1..Len(s) : s[k] = b})

\* one member or frame at the head of s: [ok, data, rest]
ReadMember(s, magic) ==
    IF s = <<>> \/ Head(s) # magic \/ "E" \notin Range(Tail(s))
    THEN [ok |-> FALSE, data |-> <<>>, rest |-> <<>>]
    ELSE LET e == FirstIndex(s, "E")
         IN  [ok |-> TRUE, data |-> SubSeq(s, 2, e - 1),
              rest |-> SubSeq(s, e + 1, Len(s))]

\* every member or frame of s, concatenated; a truncated or unknown one fails
RECURSIVE ReadMembers(_, _)
ReadMembers(s, magic) ==
    LET m == ReadMember(s, magic)
    IN  IF ~m.ok THEN Error
        ELSE IF m.rest = <<>> THEN Ok(m.data)
        ELSE LET r == ReadMembers(m.rest, magic)
             IN  IF r.ok THEN Ok(m.data \o r.data) ELSE Error

\* flate2::read::GzDecoder: the first member only; what follows is not read
GzDecoder(s) ==
    LET m == ReadMember(s, "G") IN IF m.ok THEN Ok(m.data) ELSE Error

\* flate2::read::MultiGzDecoder: every member until end of file
MultiGzDecoder(s) == ReadMembers(s, "G")

\* zstd::stream::read::Decoder: every frame until end of file
Decoder(s) == IF s = <<>> THEN Ok(<<>>) ELSE ReadMembers(s, "Z")

----------------------------------------------------------------------------
(* Matching *)

\* slice.par_split(|&b| b == b'\n'): the segments between line feeds
RECURSIVE par_split(_)
par_split(buf) ==
    IF NL \notin Range(buf) THEN <<buf>>
    ELSE LET k == FirstIndex(buf, NL)
         IN  <<SubSeq(buf, 1, k - 1)>> \o par_split(SubSeq(buf, k + 1, Len(buf)))

\* the patterns that have a match ending at offset e and starting at or
\* after offset at
MatchesEndingAt(line, pats, at, e) ==
    {p \in 1..Len(pats) :
        /\ Len(pats[p]) <= e - at
        /\ SubSeq(line, e - Len(pats[p]) + 1, e) = pats[p]}

\* the pattern reported for a match state: the longest match ending there,
\* the pattern added first among equals
Reported(pats, ids) ==
    LET longest == {p \in ids : \A q \in ids : Len(pats[q]) <= Len(pats[p])}
    IN  Min(longest)

\* ac.find_iter(line).map(|m| m.pattern()).collect::<HashSet>(): the search
\* restarts at the end of each reported match (non-overlapping matches,
\* standard match semantics: the match that ends first is reported)
RECURSIVE find_iter(_, _, _)
find_iter(line, pats, at) ==
    LET ends == {e \in (at + 1)..Len(line) : MatchesEndingAt(line, pats, at, e) # {}}
    IN  IF ends = {} THEN {}
        ELSE LET e == Min(ends)
             IN  {Reported(pats, MatchesEndingAt(line, pats, at, e))}
                     \cup find_iter(line, pats, e)

pattern_count(pats) == Len(pats)

line_matches(line, pats) ==
    Cardinality(find_iter(line, pats, 0)) = pattern_count(pats)

\* .par_split(..).filter(!is_empty).filter(matches).map(..).collect()
match_lines(buf, pats) ==
    LET Keep(line) == line # <<>> /\ line_matches(line, pats)
    IN  SelectSeq(par_split(buf), Keep)

----------------------------------------------------------------------------
(* process_file and the functions it calls *)

Ext(p) == p.ext

\* the branch process_file takes for a file it opened: meta_ok is
\* file.metadata().is_ok(), mmap_ok is Mmap::map(&file).is_ok()
choose_strategy(size, meta_ok, mmap_ok) ==
    IF ~meta_ok THEN "reopened"
    ELSE IF size > MmapThreshold /\ mmap_ok
         THEN (IF size > LargeThreshold THEN "chunked" ELSE "mapped")
         ELSE "buffered"

\* the reader of the buffered paths, read to its end
buffered_reader(ext, raw) ==
    IF ext = "gz" THEN GzDecoder(raw)
    ELSE IF ext = "zst" THEN Decoder(raw)
    ELSE Ok(raw)

\* the bytes process_memory_mapped_file matches
mapped_reader(ext, raw) ==
    IF ext = "zst" THEN Decoder(raw)
    ELSE IF ext = "gz" THEN GzDecoder(raw)
    ELSE Ok(raw)

\* (0..mmap.len()).step_by(chunk_size)
chunk_starts(len) == {s \in 0..(len - 1) : s % chunk_size = 0}

chunk_end(start, len) == IF start + chunk_size < len THEN start + chunk_size ELSE len

LastIndex(s, b) == CHOOSE k \in 1..Len(s) : s[k] = b /\ \A j \in (k + 1)..Len(s) : s[j] # b

\* the end of the chunk that starts at start, moved back to the last line feed
adjusted_end(mmap, start) ==
    LET end == chunk_end(start, Len(mmap))
        chunk == SubSeq(mmap, start + 1, end)
    IN  IF end < Len(mmap)
        THEN (IF NL \in Range(chunk) THEN start + LastIndex(chunk, NL) ELSE end)
        ELSE end

Patterns == config.patterns

\* a rayon task takes one of the walked files
TaskStart ==
    /\ pc = "scan"
    /\ files # {}
    /\ \E f \in files :
        /\ path' = f
        /\ files' = files \ {f}
    /\ pc' = "open"
    /\ UNCHANGED <<root_is_dir, config, fs, i, open_err, strategy, pending, ranges,
                   buffer, lines, results, opened, stdout, out_file, exit_status>>

\* File::open, file.metadata(), Mmap::map and the choice of the branch
FileOpen ==
    /\ pc = "open"
    /\ IF ~file_open(path)
       THEN /\ lines' = <<>>
            /\ pc' = "return"
            /\ UNCHANGED <<strategy, opened>>
       ELSE /\ opened' = opened \cup {path}
            /\ \E meta_ok \in BOOLEAN, mmap_ok \in BOOLEAN :
                 strategy' = choose_strategy(file_size(path), meta_ok, mmap_ok)
            /\ pc' = "read"
            /\ UNCHANGED lines
    /\ UNCHANGED <<root_is_dir, config, fs, i, path, open_err, files, pending, ranges,
                   buffer, results, stdout, out_file, exit_status>>

\* read_to_end through the reader, then split and match
ReadAndMatch(d) ==
    /\ IF d.ok
       THEN /\ buffer' = d.data
            /\ lines' = match_lines(d.data, Patterns)
       ELSE /\ buffer' = <<>>
            /\ lines' = <<>>
    /\ pc' = "return"
    /\ UNCHANGED <<root_is_dir, config, fs, i, path, open_err, files, strategy, pending,
                   ranges, results, opened, stdout, out_file, exit_status>>

ReadBuffered ==
    /\ pc = "read"
    /\ strategy = "buffered"
    /\ ReadAndMatch(buffered_reader(Ext(path), Raw(path)))

ReadReopened ==
    /\ pc = "read"
    /\ strategy = "reopened"
    /\ ReadAndMatch(buffered_reader(Ext(path), Raw(path)))

MapSinglePass ==
    /\ pc = "read"
    /\ strategy = "mapped"
    /\ ReadAndMatch(mapped_reader(Ext(path), Raw(path)))

\* process_large_file_chunked: the chunk starts are spread over the pool
ChunkedStart ==
    /\ pc = "read"
    /\ strategy = "chunked"
    /\ buffer' = Raw(path)
    /\ pending' = chunk_starts(Len(Raw(path)))
    /\ ranges' = {}
    /\ lines' = <<>>
    /\ pc' = "chunks"
    /\ UNCHANGED <<root_is_dir, config, fs, i, path, open_err, files, strategy,
                   results, opened, stdout, out_file, exit_status>>

\* the closure of flat_map, for one chunk start
ChunkTask ==
    /\ pc = "chunks"
    /\ \E start \in pending :
        LET stop == adjusted_end(buffer, start)
        IN  /\ pending' = pending \ {start}
            /\ ranges' = ranges \cup {<<start, stop>>}
            /\ lines' = lines \o match_lines(SubSeq(buffer, start + 1, stop), Patterns)
    /\ UNCHANGED <<root_is_dir, config, fs, pc, i, path, open_err, files, strategy,
                   buffer, results, opened, stdout, out_file, exit_status>>

ChunkedCollect ==
    /\ pc = "chunks"
    /\ pending = {}
    /\ pc' = "return"
    /\ UNCHANGED <<root_is_dir, config, fs, i, path, open_err, files, strategy, pending,
                   ranges, buffer, lines, results, opened, stdout, out_file, exit_status>>

\* process_file returns; main's flat_map takes the lines
TaskReturn ==
    /\ pc = "return"
    /\ results' = results \o lines
    /\ pc' = "scan"
    /\ path' = NoPath
    /\ strategy' = "none"
    /\ ranges' = {}
    /\ buffer' = <<>>
    /\ lines' = <<>>
    /\ UNCHANGED <<root_is_dir, config, fs, i, open_err, files, pending, opened,
                   stdout, out_file, exit_status>>

----------------------------------------------------------------------------
(* process_email *)

to_lowercase_char(c) == IF c = "A" THEN "a" ELSE c

to_lowercase(str) == [k \in 1..Len(str) |-> to_lowercase_char(str[k])]

is_alphanumeric(c) == c \in {"a", "A"}

starts_with(str, prefix) ==
    Len(prefix) <= Len(str) /\ SubSeq(str, 1, Len(prefix)) = prefix

keyword_lower == to_lowercase(config.email)

\* chars.iter().enumerate().take(3)
route_len == IF Len(keyword_lower) < 3 THEN Len(keyword_lower) ELSE 3

push_dir(p, name) == [dirs |-> Append(p.dirs, name), ext |-> p.ext]

with_ext(p, e) == [dirs |-> p.dirs, ext |-> e]

\* the probe after the first and the second character: the path it stops at,
\* or NoPath
early_probe(p) ==
    IF metadata_is_ok(with_ext(p, "gz")) THEN with_ext(p, "gz")
    ELSE IF metadata_is_ok(with_ext(p, "zst")) THEN with_ext(p, "zst")
    ELSE IF metadata_is_ok(with_ext(p, "txt")) THEN with_ext(p, "txt")
    ELSE NoPath

\* the probe after the third character
leaf_probe(p) ==
    IF metadata_is_ok(with_ext(p, "gz")) THEN with_ext(p, "gz")
    ELSE IF metadata_is_ok(with_ext(p, "zst")) THEN with_ext(p, "zst")
    ELSE with_ext(p, "txt")

\* one iteration of the routing loop
RouteStep ==
    /\ pc = "route"
    /\ i < route_len
    /\ LET c == keyword_lower[i + 1]
           p == push_dir(path, c)
       IN  IF ~is_alphanumeric(c)
           THEN /\ path' = push_dir(path, "symbols")
                /\ pc' = "email_open"
                /\ UNCHANGED i
           ELSE IF i < 2
           THEN IF early_probe(p) # NoPath
                THEN /\ path' = early_probe(p)
                     /\ pc' = "email_open"
                     /\ UNCHANGED i
                ELSE /\ path' = p
                     /\ i' = i + 1
                     /\ UNCHANGED pc
           ELSE /\ path' = leaf_probe(p)
                /\ i' = i + 1
                /\ UNCHANGED pc
    /\ UNCHANGED <<root_is_dir, config, fs, open_err, files, strategy, pending, ranges,
                   buffer, lines, results, opened, stdout, out_file, exit_status>>

\* the loop runs out of characters
RouteExit ==
    /\ pc = "route"
    /\ i >= route_len
    /\ pc' = "email_open"
    /\ UNCHANGED <<root_is_dir, config, fs, i, path, open_err, files, strategy, pending,
                   ranges, buffer, lines, results, opened, stdout, out_file, exit_status>>

EmailOpen ==
    /\ pc = "email_open"
    /\ IF file_open(path)
       THEN /\ opened' = opened \cup {path}
            /\ pc' = "email_read"
            /\ UNCHANGED <<lines, open_err>>
       ELSE /\ lines' = <<>>
            /\ open_err' = TRUE
            /\ pc' = "email_return"
            /\ UNCHANGED opened
    /\ UNCHANGED <<root_is_dir, config, fs, i, path, files, strategy, pending, ranges,
                   buffer, results, stdout, out_file, exit_status>>

\* the reader chosen by path.ends_with, read to its end; reading a
\* directory fails
email_reader(p) ==
    IF Kind(p) = "dir" THEN Error
    ELSE IF Ext(p) = "gz" THEN MultiGzDecoder(Raw(p))
    ELSE IF Ext(p) = "zst" THEN Decoder(Raw(p))
    ELSE Ok(Raw(p))

EmailRead ==
    /\ pc = "email_read"
    /\ LET d == email_reader(path)
       IN  IF d.ok
           THEN /\ buffer' = d.data
                /\ pc' = "email_filter"
                /\ UNCHANGED lines
           ELSE /\ lines' = <<>>
                /\ pc' = "email_return"
                /\ UNCHANGED buffer
    /\ UNCHANGED <<root_is_dir, config, fs, i, path, open_err, files, strategy, pending,
                   ranges, results, opened, stdout, out_file, exit_status>>

\* bstr's lines(): the terminator is \n or \r\n, and a final line needs none
trim_cr(seg) ==
    IF seg # <<>> /\ seg[Len(seg)] = CR THEN SubSeq(seg, 1, Len(seg) - 1) ELSE seg

RECURSIVE bstr_lines(_)
bstr_lines(buf) ==
    IF buf = <<>> THEN <<>>
    ELSE IF NL \notin Range(buf) THEN <<buf>>
    ELSE LET k == FirstIndex(buf, NL)
         IN  <<trim_cr(SubSeq(buf, 1, k - 1))>>
                 \o bstr_lines(SubSeq(buf, k + 1, Len(buf)))

\* the filter without the lower-casing of the line
email_keeps_case_sensitive(line, key_lower) == starts_with(line, key_lower)

\* the filter closure of process_email
email_keeps(line, key_lower) == starts_with(to_lowercase(line), key_lower)

EmailFilter ==
    /\ pc = "email_filter"
    /\ LET Keep(line) == email_keeps(line, keyword_lower)
       IN  lines' = SelectSeq(bstr_lines(buffer), Keep)
    /\ pc' = "email_return"
    /\ UNCHANGED <<root_is_dir, config, fs, i, path, open_err, files, strategy, pending,
                   ranges, buffer, results, opened, stdout, out_file, exit_status>>

----------------------------------------------------------------------------
(* main *)

\* main without the check of the corpus root
RootUnchecked == TRUE

\* println!("Using {} out of {} available CPU cores", ..)
Banner == <<"Using cores">>

RootOk == root_is_dir

\* main failing a lookup whose shard could not be opened
email_exit_status_failing(open_failed) == IF open_failed THEN 1 ELSE 0

\* the status main ends a direct-key lookup with
email_exit_status(open_failed) == 0

CheckRoot ==
    /\ pc = "start"
    /\ ~RootOk
    /\ stdout' = Append(stdout, <<"Could not find a directory">>)
    /\ exit_status' = 1
    /\ pc' = "exited"
    /\ UNCHANGED <<root_is_dir, config, fs, i, path, open_err, files, strategy, pending,
                   ranges, buffer, lines, results, opened, out_file>>

EmailCall ==
    /\ pc = "start"
    /\ RootOk
    /\ config.email # NoEmail
    /\ path' = RootPath
    /\ i' = 0
    /\ pc' = "route"
    /\ UNCHANGED <<root_is_dir, config, fs, open_err, files, strategy, pending, ranges,
                   buffer, lines, results, opened, stdout, out_file, exit_status>>

\* for line in results { println } ; return Ok(())
EmailOutput ==
    /\ pc = "email_return"
    /\ results' = lines
    /\ stdout' = stdout \o lines
    /\ exit_status' = email_exit_status(open_err)
    /\ pc' = "done"
    /\ UNCHANGED <<root_is_dir, config, fs, i, path, open_err, files, strategy, pending,
                   ranges, buffer, lines, opened, out_file>>

\* WalkDir ... filter(is_file)
walked_files == {p \in DOMAIN fs : fs[p].kind = "file"}

ScanWalk ==
    /\ pc = "start"
    /\ RootOk
    /\ config.email = NoEmail
    /\ files' = walked_files
    /\ pc' = "scan"
    /\ UNCHANGED <<root_is_dir, config, fs, i, path, open_err, strategy, pending, ranges,
                   buffer, lines, results, opened, stdout, out_file, exit_status>>

\* the results go to the console or to the output file; File::create and
\* writeln may fail, and main then returns the error
WriteOutput ==
    /\ pc = "scan"
    /\ files = {}
    /\ path = NoPath
    /\ IF config.output_file = "print"
       THEN /\ stdout' = stdout \o <<<<"Results:">>>> \o results
            /\ exit_status' = 0
            /\ UNCHANGED out_file
       ELSE \/ /\ exit_status' = 1
               /\ UNCHANGED <<out_file, stdout>>
            \/ \E written \in 0..Len(results) :
                 /\ out_file' = SubSeq(results, 1, written)
                 /\ IF written = Len(results)
                    THEN /\ stdout' = Append(stdout, <<"Results written">>)
                         /\ exit_status' = 0
                    ELSE /\ exit_status' = 1
                         /\ UNCHANGED stdout
    /\ pc' = "done"
    /\ UNCHANGED <<root_is_dir, config, fs, i, path, open_err, files, strategy, pending,
                   ranges, buffer, lines, results, opened>>

----------------------------------------------------------------------------
(* Initial states: the command line and the corpus *)

PlainBytes == {"a", "b", NL}

Pats == SeqsUpTo({"a", "b"}, MaxPatLen) \ {<<>>}

\* keyword alone, or keyword and second_keyword
PatternSets == {<<p>> : p \in Pats} \cup {<<p, q>> : p \in Pats, q \in Pats}

LongPatternSets == {<< <<"a">> >>, << <<"a", "b">> >>, << <<"a">>, <<"b">> >>}

File(raw) == [kind |-> "file", raw |-> raw, readable |-> TRUE]

Unreadable(raw) == [kind |-> "file", raw |-> raw, readable |-> FALSE]

Dir == [kind |-> "dir", raw |-> <<>>, readable |-> TRUE]

ShardPath(name, ext) == [dirs |-> <<name>>, ext |-> ext]

Magic(ext) == IF ext = "gz" THEN "G" ELSE "Z"

Member(magic, payload) == <<magic>> \o payload \o <<"E">>

\* well-formed streams of one or two members (frames)
Streams(magic, payloads) ==
    {Member(magic, p) : p \in payloads}
        \cup {Member(magic, p) \o Member(magic, q) : p \in payloads, q \in payloads}

\* a stream cut short, and a stream with a wrong first byte
Damaged(magic, payloads) ==
    {SubSeq(r, 1, Len(r) - 1) : r \in Streams(magic, payloads)}
        \cup {<<"b">> \o Tail(r) : r \in Streams(magic, payloads)}

ScanConfig(pats, out) == [patterns |-> pats, email |-> NoEmail, output_file |-> out]

EmailConfig(key) == [patterns |-> <<>>, email |-> key, output_file |-> "print"]

OneShard(p, e) == [q \in {p} |-> e]

TwoShards(p1, e1, p2, e2) == [q \in {p1, p2} |-> IF q = p1 THEN e1 ELSE e2]

\* one plain shard, every pattern set
ShortCorpus ==
    /\ config \in {ScanConfig(ps, "print") : ps \in PatternSets}
    /\ fs \in {OneShard(ShardPath("s1", "txt"), File(raw)) :
                 raw \in SeqsUpTo(PlainBytes, MaxShortLen)}

\* one plain shard of any size
LongCorpus ==
    /\ config \in {ScanConfig(ps, "print") : ps \in LongPatternSets}
    /\ fs \in {OneShard(ShardPath("s1", "txt"), File(raw)) :
                 raw \in SeqsUpTo(PlainBytes, MaxLongLen)}

\* one compressed shard, well-formed or damaged
CompressedCorpus ==
    /\ config \in {ScanConfig(ps, "print") : ps \in LongPatternSets}
    /\ \E ext \in {"gz", "zst"} :
         LET payloads == SeqsUpTo(PlainBytes, MaxPayload)
         IN  fs \in {OneShard(ShardPath("s1", ext), File(raw)) :
                       raw \in Streams(Magic(ext), payloads)
                                 \cup Damaged(Magic(ext), payloads)}

\* the second shard of a two-shard corpus
SecondShards ==
    LET payloads == SeqsUpTo({"a", NL}, 2)
    IN  {<<ShardPath("s2", "txt"), Unreadable(<<"a", NL>>)>>}
          \cup {<<ShardPath("s2", ext), File(raw)>> :
                  ext \in {"gz"}, raw \in Streams("G", payloads) \cup Damaged("G", payloads)}
          \cup {<<ShardPath("s2", ext), File(raw)>> :
                  ext \in {"zst"}, raw \in Streams("Z", payloads) \cup Damaged("Z", payloads)}

PairCorpus ==
    /\ config \in {ScanConfig(<< <<"a">> >>, out) : out \in {"print", "out.txt"}}
    /\ fs \in {TwoShards(ShardPath("s1", "txt"), File(raw), s[1], s[2]) :
                 raw \in SeqsUpTo(PlainBytes, MaxPairLen), s \in SecondShards}

InitState ==
    /\ pc = "start"
    /\ i = 0
    /\ path = NoPath
    /\ open_err = FALSE
    /\ files = {}
    /\ strategy = "none"
    /\ pending = {}
    /\ ranges = {}
    /\ buffer = <<>>
    /\ lines = <<>>
    /\ results = <<>>
    /\ opened = {}
    /\ stdout = <<Banner>>
    /\ out_file = NoFile
    /\ exit_status = NotExited

Init ==
    /\ root_is_dir = TRUE
    /\ ShortCorpus \/ LongCorpus \/ CompressedCorpus \/ PairCorpus
    /\ InitState

Next ==
    \/ ScanWalk
    \/ TaskStart
    \/ FileOpen
    \/ ReadBuffered
    \/ ReadReopened
    \/ MapSinglePass
    \/ ChunkedStart
    \/ ChunkTask
    \/ ChunkedCollect
    \/ TaskReturn
    \/ WriteOutput

Spec == Init /\ [][Next]_vars

----------------------------------------------------------------------------
(* Properties of the pattern scan *)

Occurs(p, line) ==
    \E k \in 1..(Len(line) - Len(p) + 1) : SubSeq(line, k, k + Len(p) - 1) = p

NonEmptyLines(buf) == Range(par_split(buf)) \ {<<>>}

\* a process_file call that went through a single-pass read is returning
SinglePassReturn ==
    pc = "return" /\ strategy \in {"buffered", "reopened", "mapped"}

\* what the format itself makes of the shard's bytes
FullDecode(p) ==
    IF Ext(p) = "gz" THEN MultiGzDecoder(Raw(p))
    ELSE IF Ext(p) = "zst" THEN Decoder(Raw(p))
    ELSE Ok(Raw(p))

\* C1: a non-empty line of a scanned plain file is returned by process_file
\* if and only if every pattern occurs in it as a substring, and then as
\* often as the line occurs in the file.
C1_ReturnedIffEveryPatternOccurs ==
    (SinglePassReturn /\ Ext(path) = "txt") =>
        \A line \in NonEmptyLines(buffer) :
            IF \A k \in 1..Len(Patterns) : Occurs(Patterns[k], line)
            THEN Count(lines, line) = Count(par_split(buffer), line)
            ELSE Count(lines, line) = 0

\* C2: the adjusted chunks [start, adjusted_end) of process_large_file_chunked
\* partition the file (every byte lies in exactly one chunk) and no chunk
\* boundary falls inside a line.
C2_ChunksPartitionAtLineBoundaries ==
    (pc = "return" /\ strategy = "chunked") =>
        /\ \A b \in 0..(Len(buffer) - 1) :
             Cardinality({r \in ranges : r[1] <= b /\ b < r[2]}) = 1
        /\ \A r \in ranges :
             /\ r[1] = 0 \/ buffer[r[1]] = NL
             /\ r[2] = Len(buffer) \/ buffer[r[2]] = NL

\* C3: for uncompressed content the multiset of matched lines is the same on
\* the buffered path, the memory-mapped single pass and the chunked path: it is
\* the multiset of the matching lines of the whole content.
C3_MatchesIndependentOfStrategy ==
    (pc = "return" /\ strategy # "none" /\ Ext(path) = "txt") =>
        SameBag(lines, match_lines(Raw(path), Patterns))

\* a shard that cannot be opened, or whose compressed stream is damaged
Failing(p) == ~fs[p].readable \/ ~FullDecode(p).ok

\* C6: a failing shard contributes no line to the results, and a run that
\* prints its results completes with status 0.
C6_FailingShardContributesNothing ==
    /\ (pc = "return" /\ Failing(path)) => lines = <<>>
    /\ (pc = "done" /\ config.output_file = "print") => exit_status = 0

\* C9: for a compressed shard above the large-file threshold, the bytes that
\* are split into chunks and matched are the decoded content.
C9_LargeCompressedDecodedBeforeChunking ==
    (pc \in {"chunks", "return"} /\ strategy = "chunked"
        /\ Ext(path) \in {"gz", "zst"} /\ FullDecode(path).ok) =>
        buffer = FullDecode(path).data

\* C10: on the single-pass scan paths the bytes matched for a .gz shard are
\* the concatenation of all members of the file, for a .zst shard the decoded
\* frames, and for any other extension the bytes of the file.
C10_DecoderFromExtension ==
    (SinglePassReturn /\ FullDecode(path).ok) => buffer = FullDecode(path).data

----------------------------------------------------------------------------
(* Initial states of the whole program: either mode, corpus root present or
   absent *)

KeyChars == {"a", "A", "@"}

ShardBytes == {"a", "A", NL, CR}

RouteName(c) == IF is_alphanumeric(c) THEN to_lowercase_char(c) ELSE "symbols"

\* the directories the routing of key can descend through
RoutePrefixes(key) ==
    {[k \in 1..n |-> RouteName(key[k])] :
        n \in {m \in 1..Len(key) : m <= 3 /\ \A j \in 1..(m - 1) : is_alphanumeric(key[j])}}

ProbePaths(key) ==
    {[dirs |-> d, ext |-> e] : d \in RoutePrefixes(key), e \in {"gz", "zst", "txt"}}

Encode(ext, content) ==
    IF ext \in {"gz", "zst"} THEN Member(Magic(ext), content) ELSE content

\* a stream of two members (frames) holding content
EncodeSplit(ext, content) ==
    IF content = <<>> THEN Member(Magic(ext), <<>>) \o Member(Magic(ext), <<>>)
    ELSE Member(Magic(ext), <<Head(content)>>) \o Member(Magic(ext), Tail(content))

Encodings(ext, content) ==
    IF ext \in {"gz", "zst"}
    THEN {File(Encode(ext, content)), File(EncodeSplit(ext, content)),
          File(SubSeq(Encode(ext, content), 1, Len(content) + 1))}
    ELSE {File(content)}

EntryAt(p, kind) ==
    IF kind = "dir" THEN Dir ELSE File(Encode(p.ext, <<"a", NL, "A", "a", NL>>))

\* up to MaxEntries files and directories on the probed paths of the key
RoutingCorpus ==
    \E key \in SeqsUpTo(KeyChars, MaxKeyLen) :
        /\ config = EmailConfig(key)
        /\ \E S \in SUBSET ProbePaths(key) :
             /\ Cardinality(S) <= MaxEntries
             /\ \E kinds \in [S -> {"file", "dir"}] :
                  fs = [p \in S |-> EntryAt(p, kinds[p])]

\* one shard, of any content and encoding, on the route of the key
ContentCorpus ==
    \E key \in SeqsUpTo(KeyChars, MaxPrefixKeyLen) \ {<<>>} :
        /\ config = EmailConfig(key)
        /\ \E d \in RoutePrefixes(key), ext \in {"", "gz", "zst", "txt"} :
             LET p == [dirs |-> d, ext |-> ext]
             IN  \/ \E content \in SeqsUpTo(ShardBytes, MaxContent) :
                       \E e \in Encodings(ext, content) : fs = OneShard(p, e)
                 \/ fs = OneShard(p, Unreadable(<<"a", NL>>))

InitMain ==
    /\ root_is_dir \in BOOLEAN
    /\ PairCorpus \/ RoutingCorpus \/ ContentCorpus
    /\ InitState

NextMain ==
    \/ CheckRoot
    \/ EmailCall
    \/ RouteStep
    \/ RouteExit
    \/ EmailOpen
    \/ EmailRead
    \/ EmailFilter
    \/ EmailOutput
    \/ Next

MainSpec == InitMain /\ [][NextMain]_vars

----------------------------------------------------------------------------
(* Properties of the direct-key lookup and of main *)

IsEmailRun == config.email # NoEmail

IsFileAt(p) == p \in DOMAIN fs /\ fs[p].kind = "file"

\* the first supported extension under which a file (not a directory) exists
FileProbe(p) ==
    IF IsFileAt(with_ext(p, "gz")) THEN with_ext(p, "gz")
    ELSE IF IsFileAt(with_ext(p, "zst")) THEN with_ext(p, "zst")
    ELSE IF IsFileAt(with_ext(p, "txt")) THEN with_ext(p, "txt")
    ELSE NoPath

\* the routing rule, from character k of the lower-cased key on
RECURSIVE RoutedFrom(_, _, _)
RoutedFrom(p, chars, k) ==
    IF k > Len(chars) \/ k > 3 THEN p
    ELSE IF ~is_alphanumeric(chars[k]) THEN push_dir(p, "symbols")
    ELSE LET q == push_dir(p, chars[k])
         IN  IF FileProbe(q) # NoPath THEN FileProbe(q)
             ELSE IF k < 3 THEN RoutedFrom(q, chars, k + 1)
             ELSE with_ext(q, "txt")

\* C4: the path process_email resolves is the one the routing rule gives
\* from the lower-cased key and the existing files: a directory per
\* alphanumeric character, `symbols` and stop for any other, and a stop at the
\* first file (not a directory) found by the extension probe.
C4_ResolvedPathFollowsRoutingRule ==
    (IsEmailRun /\ pc = "email_open") =>
        path = RoutedFrom(RootPath, keyword_lower, 1)

\* [a, b] holds one line of content: it starts after a line feed or at the
\* start, holds no line feed, and ends before a line feed or at the end
IsLineAt(content, a, b) ==
    /\ a <= Len(content)
    /\ a = 1 \/ content[a - 1] = NL
    /\ \A k \in a..b : content[k] # NL
    /\ b = Len(content) \/ content[b + 1] = NL

\* the line without its terminator, \n or \r\n
LineText(content, a, b) ==
    IF b < Len(content) /\ b >= a /\ content[b] = CR
    THEN SubSeq(content, a, b - 1)
    ELSE SubSeq(content, a, b)

Occurrences(content, line) ==
    Cardinality({ab \in (1..Len(content)) \X (0..Len(content)) :
                    /\ ab[2] >= ab[1] - 1
                    /\ IsLineAt(content, ab[1], ab[2])
                    /\ LineText(content, ab[1], ab[2]) = line})

LineTexts(content) ==
    {LineText(content, ab[1], ab[2]) :
        ab \in {cd \in (1..Len(content)) \X (0..Len(content)) :
                  cd[2] >= cd[1] - 1 /\ IsLineAt(content, cd[1], cd[2])}}

\* the shard at the resolved path was opened and decoded
ShardDecoded ==
    /\ IsEmailRun
    /\ pc \in {"email_return", "done"}
    /\ IsFileAt(path)
    /\ fs[path].readable
    /\ FullDecode(path).ok

C7_NoRootNoScan ==
    ~root_is_dir =>
        /\ pc \in {"start", "exited"}
        /\ opened = {}
        /\ out_file = NoFile
        /\ results = <<>>
        /\ pc = "exited" =>
             /\ exit_status = 1
             /\ stdout = <<Banner, <<"Could not find a directory">> >>

\* the run ended at the root check, with shards in the corpus and an output
\* file asked for
C7_Witness ==
    /\ ~root_is_dir
    /\ pc = "exited"
    /\ exit_status = 1
    /\ config.output_file = "out.txt"
    /\ \E p \in DOMAIN fs : fs[p].kind = "file" /\ fs[p].readable

\* what the user sees of a run: the status and the output
Outcome == <<exit_status, stdout>>

\* the outcome of a lookup that opened its shard and found no matching line
NoMatchOutcome == <<0, <<Banner>>>>

\* C8 as stated: a lookup whose resolved file cannot be opened ends in an
\* outcome that differs from that of a successful lookup without a match.
C8_MissingShardIsAnError ==
    (IsEmailRun /\ pc = "done" /\ open_err) => Outcome # NoMatchOutcome

\* C8 as amended: a lookup whose resolved file cannot be opened ends at once,
\* reading nothing and returning no line, with status 0 and no output: the
\* outcome of a successful lookup that found no matching line.
C8_MissingShardEndsLikeNoMatch ==
    /\ (IsEmailRun /\ open_err) =>
          /\ pc \in {"email_return", "done"}
          /\ ~file_open(path)
          /\ buffer = <<>>
          /\ lines = <<>>
    /\ (IsEmailRun /\ pc = "done" /\ results = <<>>) => Outcome = NoMatchOutcome

\* a lookup ended on a path at which nothing exists
C8_Witness ==
    /\ IsEmailRun
    /\ pc = "done"
    /\ open_err
    /\ path \notin DOMAIN fs
    /\ DOMAIN fs # {}

====
